---- MODULE Spec2Model ----
(***************************************************************************)
(* Model of the audio fingerprinting library (app/audio_fingerprinter.py): *)
(* the FingerprintDatabase inverted index with its offset-voting query,    *)
(* the fuzzy hash, the peak extraction and the peak pairing of             *)
(* AudioFingerprinter; of the /predict and /upload handlers of the server  *)
(* (app/server.py); and of predict() and reset() of the module-level       *)
(* pipeline (app/fingerprint.py).                                          *)
(*                                                                         *)
(* Numbers.  The program computes with Python floats (IEEE-754 binary      *)
(* floating point, round to nearest, ties to even).  The model keeps that  *)
(* arithmetic at a precision of Prec bits instead of 53, so that every     *)
(* value fits TLC's integers: a time is an integer count of 1/TimeScale    *)
(* seconds, a frequency an integer count of Hz, and the result of every    *)
(* float operation that can be inexact is rounded by FRound.               *)
(***************************************************************************)
EXTENDS Integers, Sequences, FiniteSets, TLC

\* ------------------------------------------------------------------ bounds
\* Precision (bits of mantissa) of the modelled floating point format.
Prec == 8
\* Most postings the index holds (add_fingerprints is disabled beyond it).
MaxPostings == 2
\* Most records of one add_fingerprints call.
MaxHashes == 2
\* Most records of one query made between insertions and clears.
MaxLookups == 1
\* Most postings of an index a query is applied to, and most records of
\* that query.
MaxIndex == 3
MaxQuery == 2
\* Most peaks of one generate_fingerprints call.
MaxPeaks == 3
\* Most columns of a spectrogram given to extract_peaks.
MaxCols == 3
\* Most /predict requests the server receives.
MaxRequests == 2
\* Most predict() calls of the module-level pipeline.
MaxPredicts == 2
\* Most files of AUDIO_DIR, and of QUERY_DIR, at a predict() call.
MaxFiles == 2

\* ------------------------------------------------------- float arithmetic
\* Time units per second: the float 0.02 has its last mantissa bit at
\* 2^-(Prec+5), and every time of the model is a multiple of that unit.
TimeScale == 2^(Prec + 5)

Abs(n) == IF n < 0 THEN -n ELSE n

\* The number of low bits a magnitude a loses when kept to Prec bits.
LostBits(a) ==
  IF a < 2^Prec THEN 0
  ELSE CHOOSE s \in 1..(30 - Prec) :
         /\ a \div (2^s) < 2^Prec
         /\ a \div (2^(s - 1)) >= 2^Prec

\* Round to nearest, ties to even, of a magnitude a to Prec significant bits.
RoundMagnitude(a) ==
  LET s == LostBits(a)
      q == a \div (2^s)
      r == a % (2^s)
      half == IF s = 0 THEN 0 ELSE 2^(s - 1)
      up == s > 0 /\ (r > half \/ (r = half /\ q % 2 = 1))
  IN  (IF up THEN q + 1 ELSE q) * (2^s)

\* The float nearest to the exact value n.
FRound(n) == IF n < 0 THEN -RoundMagnitude(-n) ELSE RoundMagnitude(n)

\* x - y on floats: the exact difference, rounded.
FSub(x, y) == FRound(x - y)

\* x + y on floats: the exact sum, rounded.
FAdd(x, y) == FRound(x + y)

\* x % w on floats, w > 0: fmod is exact, and the result has the sign of w.
FMod(x, w) == x % w

\* x // w on floats, w > 0: the floor of the exact quotient of the two floats
\* (an integer far below 2^Prec here, hence itself a float).
FFloorDiv(x, w) == x \div w

\* int(x) of a float holding a time: truncation toward zero, in whole seconds.
IntOfSeconds(x) == IF x < 0 THEN -((-x) \div TimeScale) ELSE x \div TimeScale

\* floor(x) of a time in whole seconds (rounding toward negative infinity).
FloorOfSeconds(x) == x \div TimeScale

\* ------------------------------------------------------------------ values
Digests == {111, 222}
SourceIds == {1, 2}
\* Anchor times of indexed records: 0.0 s and 1.5 s.
DbTimes == {0, 3 * (TimeScale \div 2)}
\* Anchor times of query records: 0.0 s and 0.5 s.
QueryTimes == {0, TimeScale \div 2}
\* The source_id the callers give to query records (server.py: 999).
QueryId == 999
\* Metadata values: None (no metadata given) or a dict.
NoMetadata == "None"
SomeMetadata == "filename"

\* A hash record is <<digest, source_id, anchor_time>>.
DbRecords == ({111} \X SourceIds \X DbTimes) \cup {<<222, 2, 0>>}
\* The records inserted by the insert / clear / look up runs.
RunRecords ==
  {<<111, 1, 0>>, <<111, 2, 3 * (TimeScale \div 2)>>,
   <<222, 1, 3 * (TimeScale \div 2)>>, <<222, 2, 0>>}
QueryRecords == Digests \X {QueryId} \X QueryTimes

SeqsUpTo(S, n) == UNION {[1..k -> S] : k \in 0..n}

VARIABLES
  fingerprints,   \* FingerprintDatabase.fingerprints: digest -> list of <<source_id, time>>
  metadata,       \* FingerprintDatabase.metadata: audio_id -> metadata
  inserted,       \* history: the records inserted since the last clear, in order
  cleared,        \* history: clear() ran and no add_fingerprints since
  call,           \* the last call: its name and arguments
  matches,        \* query's local `matches`: <<[offset, cands]>> in creation order
  results,        \* the value the last query returned
  metaResult      \* the value the last get_metadata returned

dbVars == <<fingerprints, metadata, inserted, cleared, call, matches, results, metaResult>>

VARIABLES
  fuzz,           \* _make_fuzzy_hash: the arguments f1_hz, f2_hz, dt_s and the shifts eps, delta
  digests         \* the digests returned for the arguments and for the shifted arguments

hashVars == <<fuzz, digests>>

VARIABLES
  gen,            \* generate_fingerprints: the arguments peaks and audio_id
  generated       \* the list generate_fingerprints returned

genVars == <<gen, generated>>

VARIABLES
  peak,           \* extract_peaks: the argument spectrogram and self.window_size, self.threshold
  extracted       \* what extract_peaks did: the exception raised, or max_points and the list returned

peakVars == <<peak, extracted>>

VARIABLES
  uploads,        \* UPLOAD_DIR: file name -> "absent", "partial" (being written) or "whole"
  pc,             \* per /predict request: the statement it executes next
  running,        \* the request that holds the event loop between two awaits, or 0
  requests        \* per /predict request: its locals and what it did and saw

srvVars == <<uploads, pc, running, requests>>

VARIABLES
  globals,        \* fingerprint.py module state: audio_id, audio_db, hash_fingerprints
  predicted       \* the predict() calls so far: their number, the last one's inputs and how it ended

pipeVars == <<globals, predicted>>

vars == <<dbVars, hashVars, genVars, peakVars, srvVars, pipeVars>>

\* What the calls on the database leave alone.
notDb == <<hashVars, genVars, peakVars, srvVars, pipeVars>>

\* A dict with no key.
EmptyDict == [k \in {} |-> <<>>]

None == [isNone |-> TRUE, list |-> <<>>]
Some(l) == [isNone |-> FALSE, list |-> l]

Idle(op) == [op |-> op, query_hashes |-> <<>>, audio_id |-> 0]

\* -------------------------------------------------------- add_fingerprints
\* Mutant of AppendPosting: a posting already in the list is not added again.
AppendPostingDedup(fp, rec) ==
  LET digest == rec[1]
      posting == <<rec[2], rec[3]>>
  IN  IF digest \in DOMAIN fp
        THEN IF \E i \in 1..Len(fp[digest]) : fp[digest][i] = posting
               THEN fp
               ELSE [fp EXCEPT ![digest] = Append(@, posting)]
        ELSE fp @@ (digest :> <<posting>>)

\* self.fingerprints[digest].append((aid, time_x)) on a defaultdict(list).
AppendPosting(fp, rec) ==
  LET digest == rec[1]
      posting == <<rec[2], rec[3]>>
  IN  IF digest \in DOMAIN fp
        THEN [fp EXCEPT ![digest] = Append(@, posting)]
        ELSE fp @@ (digest :> <<posting>>)

\* for digest, aid, time_x in hashes: ...
RECURSIVE AppendAll(_, _)
AppendAll(fp, hashes) ==
  IF hashes = <<>> THEN fp
  ELSE AppendAll(AppendPosting(fp, Head(hashes)), Tail(hashes))

\* if metadata: self.metadata[audio_id] = metadata
StoreMetadata(md, audio_id, m) ==
  IF m = NoMetadata THEN md
  ELSE [k \in DOMAIN md \cup {audio_id} |-> IF k = audio_id THEN m ELSE md[k]]

RECURSIVE Sum(_)
Sum(s) == IF s = <<>> THEN 0 ELSE Head(s) + Sum(Tail(s))

NumPostings(fp) ==
  LET RECURSIVE Count(_)
      Count(D) == IF D = {} THEN 0
                  ELSE LET d == CHOOSE x \in D : TRUE
                       IN  Len(fp[d]) + Count(D \ {d})
  IN  Count(DOMAIN fp)

AddFingerprints(hashes, audio_id, m) ==
  /\ NumPostings(fingerprints) + Len(hashes) <= MaxPostings
  /\ fingerprints' = AppendAll(fingerprints, hashes)
  /\ metadata' = StoreMetadata(metadata, audio_id, m)
  /\ inserted' = inserted \o hashes
  /\ cleared' = FALSE
  /\ call' = [op |-> "add_fingerprints", query_hashes |-> <<>>, audio_id |-> audio_id]
  /\ matches' = <<>>
  /\ results' = None
  /\ metaResult' = NoMetadata
  /\ UNCHANGED notDb

\* ------------------------------------------------------------------- query
\* Mutant of Offset: the difference is floored instead of truncated.
OffsetFloored(anchor_time_db, time_x) == FloorOfSeconds(FSub(anchor_time_db, time_x))

\* offset = int(anchor_time_db - time_x)
Offset(anchor_time_db, time_x) == IntOfSeconds(FSub(anchor_time_db, time_x))

\* matches[offset].append(audio_id) on a defaultdict(list): a dict keeps its
\* keys in the order they were first inserted.
Vote(m, offset, audio_id) ==
  IF \E i \in 1..Len(m) : m[i].offset = offset
    THEN LET i == CHOOSE j \in 1..Len(m) : m[j].offset = offset
         IN  [m EXCEPT ![i].cands = Append(@, audio_id)]
    ELSE Append(m, [offset |-> offset, cands |-> <<audio_id>>])

\* for audio_id, anchor_time_db in self.fingerprints[digest]: ...
RECURSIVE VotePostings(_, _, _)
VotePostings(m, postings, time_x) ==
  IF postings = <<>> THEN m
  ELSE VotePostings(Vote(m, Offset(Head(postings)[2], time_x), Head(postings)[1]),
                    Tail(postings), time_x)

\* for digest, _, time_x in query_hashes: if digest in self.fingerprints: ...
RECURSIVE CollectMatches(_, _, _)
CollectMatches(m, fp, query_hashes) ==
  IF query_hashes = <<>> THEN m
  ELSE LET rec == Head(query_hashes)
           next == IF rec[1] \in DOMAIN fp
                     THEN VotePostings(m, fp[rec[1]], rec[3])
                     ELSE m
       IN  CollectMatches(next, fp, Tail(query_hashes))

\* max(matches.keys(), key=lambda k: len(matches[k])): the scan keeps the
\* first key whose list is strictly longer than every list before it.
RECURSIVE MaxScan(_, _, _)
MaxScan(m, i, best) ==
  IF i > Len(m) THEN best
  ELSE MaxScan(m, i + 1,
               IF Len(m[i].cands) > Len(m[best].cands) THEN i ELSE best)

\* Mutant of MaxKey: among the longest lists the last created one wins.
MaxKeyLast(m) ==
  CHOOSE i \in 1..Len(m) :
    /\ \A j \in 1..Len(m) : Len(m[j].cands) <= Len(m[i].cands)
    /\ \A j \in (i + 1)..Len(m) : Len(m[j].cands) < Len(m[i].cands)

MaxKey(m) == MaxScan(m, 2, 1)

\* Counter(cands): source -> count, keys in order of first occurrence.
CountOne(counter, audio_id) ==
  IF \E i \in 1..Len(counter) : counter[i].id = audio_id
    THEN LET i == CHOOSE j \in 1..Len(counter) : counter[j].id = audio_id
         IN  [counter EXCEPT ![i].count = @ + 1]
    ELSE Append(counter, [id |-> audio_id, count |-> 1])

RECURSIVE CounterOf(_, _)
CounterOf(counter, cands) ==
  IF cands = <<>> THEN counter
  ELSE CounterOf(CountOne(counter, Head(cands)), Tail(cands))

\* total = sum(counter.values())
Total(counter) == Sum([i \in 1..Len(counter) |-> counter[i].count])

\* Mutant of Confidences: the count is divided by the number of sources.
ConfidencesPerSource(counter) ==
  [i \in 1..Len(counter) |->
     [id |-> counter[i].id, num |-> counter[i].count, den |-> Len(counter)]]

\* [(audio_id, count / total) for audio_id, count in counter.items()]: the
\* confidence count / total is kept as the pair num, den.
Confidences(counter) ==
  [i \in 1..Len(counter) |->
     [id |-> counter[i].id, num |-> counter[i].count, den |-> Total(counter)]]

\* a sorts strictly before b by confidence descending (equal denominators
\* are not assumed: cross-multiplied).
Higher(a, b) == a.num * b.den > b.num * a.den

\* Mutant of InsertSorted: an unstable sort, which puts an entry before the
\* entries of equal confidence.
InsertSortedUnstable(sorted, e) ==
  LET k == Cardinality({i \in 1..Len(sorted) : Higher(sorted[i], e)})
  IN  SubSeq(sorted, 1, k) \o <<e>> \o SubSeq(sorted, k + 1, Len(sorted))

\* results.sort(key=lambda x: x[1], reverse=True): a stable sort, entries of
\* equal confidence keep the order they had.
InsertSorted(sorted, e) ==
  LET k == Cardinality({i \in 1..Len(sorted) : ~Higher(e, sorted[i])})
  IN  SubSeq(sorted, 1, k) \o <<e>> \o SubSeq(sorted, k + 1, Len(sorted))

RECURSIVE SortByConfidence(_, _)
SortByConfidence(sorted, rest) ==
  IF rest = <<>> THEN sorted
  ELSE SortByConfidence(InsertSorted(sorted, Head(rest)), Tail(rest))

\* Mutant of QueryResult: no match is reported as an empty list.
QueryResultEmptyList(m) ==
  IF m = <<>> THEN Some(<<>>)
  ELSE Some(SortByConfidence(<<>>, Confidences(CounterOf(<<>>, m[MaxKey(m)].cands))))

\* if not matches: return None ... return results
QueryResult(m) ==
  IF m = <<>> THEN None
  ELSE Some(SortByConfidence(<<>>, Confidences(CounterOf(<<>>, m[MaxKey(m)].cands))))

Query(query_hashes) ==
  LET m == CollectMatches(<<>>, fingerprints, query_hashes)
  IN  /\ matches' = m
      /\ results' = QueryResult(m)
      /\ call' = [op |-> "query", query_hashes |-> query_hashes, audio_id |-> 0]
      /\ metaResult' = NoMetadata
      /\ UNCHANGED <<fingerprints, metadata, inserted, cleared, notDb>>

\* ------------------------------------------------------------------- clear
\* Mutant of Clear: the metadata is kept.
ClearFingerprintsOnly ==
  /\ fingerprints' = EmptyDict
  /\ inserted' = <<>>
  /\ cleared' = TRUE
  /\ call' = Idle("clear")
  /\ matches' = <<>>
  /\ results' = None
  /\ metaResult' = NoMetadata
  /\ UNCHANGED <<metadata, notDb>>

\* self.fingerprints.clear(); self.metadata.clear()
Clear ==
  /\ fingerprints' = EmptyDict
  /\ metadata' = EmptyDict
  /\ inserted' = <<>>
  /\ cleared' = TRUE
  /\ call' = Idle("clear")
  /\ matches' = <<>>
  /\ results' = None
  /\ metaResult' = NoMetadata
  /\ UNCHANGED notDb

\* ------------------------------------------------------------ get_metadata
\* self.metadata.get(audio_id)
GetMetadata(audio_id) ==
  /\ metaResult' = IF audio_id \in DOMAIN metadata THEN metadata[audio_id] ELSE NoMetadata
  /\ call' = [op |-> "get_metadata", query_hashes |-> <<>>, audio_id |-> audio_id]
  /\ matches' = <<>>
  /\ results' = None
  /\ UNCHANGED <<fingerprints, metadata, inserted, cleared, notDb>>

\* -------------------------------------------------------- _make_fuzzy_hash
\* FUZ_F_HZ = 20.0, in Hz.
FUZ_F_HZ == 20
\* FUZ_DT_S = 0.02: the float nearest to the decimal 0.02, in time units.
FUZ_DT_S == (2 * TimeScale + 50) \div 100

\* Mutant of MakeFuzzyHash: values are quantized to the nearest bucket
\* boundary instead of the one below.
MakeFuzzyHashNearest(f1_hz, f2_hz, dt_s) ==
  LET b1 == FFloorDiv(FAdd(f1_hz, FUZ_F_HZ \div 2), FUZ_F_HZ)
      b2 == FFloorDiv(FAdd(f2_hz, FUZ_F_HZ \div 2), FUZ_F_HZ)
      b3 == FFloorDiv(FAdd(dt_s, FUZ_DT_S \div 2), FUZ_DT_S)
  IN  (b3 * 10^6) + (b2 * 10^3) + b1

\* f1_q = f1_hz - (f1_hz % FUZ_F_HZ) ... b1 = int(f1_q // FUZ_F_HZ) ...
\* return (b3 * 10**6) + (b2 * 10**3) + b1
MakeFuzzyHash(f1_hz, f2_hz, dt_s) ==
  LET f1_q == FSub(f1_hz, FMod(f1_hz, FUZ_F_HZ))
      f2_q == FSub(f2_hz, FMod(f2_hz, FUZ_F_HZ))
      dt_q == FSub(dt_s, FMod(dt_s, FUZ_DT_S))
      b1 == FFloorDiv(f1_q, FUZ_F_HZ)
      b2 == FFloorDiv(f2_q, FUZ_F_HZ)
      b3 == FFloorDiv(dt_q, FUZ_DT_S)
  IN  (b3 * 10^6) + (b2 * 10^3) + b1

\* The buckets <<b3, b2, b1>> that _make_fuzzy_hash packs.
BucketsOf(f1_hz, f2_hz, dt_s) ==
  <<FFloorDiv(FSub(dt_s, FMod(dt_s, FUZ_DT_S)), FUZ_DT_S),
    FFloorDiv(FSub(f2_hz, FMod(f2_hz, FUZ_F_HZ)), FUZ_F_HZ),
    FFloorDiv(FSub(f1_hz, FMod(f1_hz, FUZ_F_HZ)), FUZ_F_HZ)>>

NotHashed == [done |-> FALSE, digest |-> 0]
Hashed(d) == [done |-> TRUE, digest |-> d]

\* _make_fuzzy_hash(f1, f2, dt)
HashArguments ==
  /\ ~digests.base.done
  /\ digests' = [digests EXCEPT !.base = Hashed(MakeFuzzyHash(fuzz.f1_hz, fuzz.f2_hz, fuzz.dt_s))]
  /\ UNCHANGED <<fuzz, dbVars, genVars, peakVars, srvVars, pipeVars>>

\* _make_fuzzy_hash(f1 + eps, f2 + eps, dt + delta)
HashShiftedArguments ==
  /\ ~digests.shifted.done
  /\ digests' = [digests EXCEPT !.shifted =
                   Hashed(MakeFuzzyHash(FAdd(fuzz.f1_hz, fuzz.eps), FAdd(fuzz.f2_hz, fuzz.eps),
                                        FAdd(fuzz.dt_s, fuzz.delta)))]
  /\ UNCHANGED <<fuzz, dbVars, genVars, peakVars, srvVars, pipeVars>>

\* ---------------------------------------------------- generate_fingerprints
\* self.time_window = 5.0, in time units.
time_window == 5 * TimeScale

\* The axis arrays: frames 2.5 s apart, frequency bins 15 Hz and 40 Hz.
Frames == 0..3
Bins == 0..1
times == [j \in Frames |-> j * ((5 * TimeScale) \div 2)]
freqs == [i \in Bins |-> 15 + 25 * i]
\* The amplitude of the peaks (generate_fingerprints does not read it).
Amplitude == 5
\* A peak is <<freq_idx, time_idx, amplitude>>.
Peaks == Bins \X Frames \X {Amplitude}

\* time_diff = time_y - time_x
TimeDiff(px, py) == FSub(times[py[2]], times[px[2]])

\* Mutant of Paired: create_fingerprint's test, without the lower bound.
PairedWithinWindowOnly(px, py) == TimeDiff(px, py) <= time_window

\* if 0 < time_diff <= self.time_window
Paired(px, py) == 0 < TimeDiff(px, py) /\ TimeDiff(px, py) <= time_window

\* digest = self._make_fuzzy_hash(freq_x, freq_y, time_diff)
\* hashes.append((digest, audio_id, time_x))
HashRecord(px, py, audio_id) ==
  <<MakeFuzzyHash(freqs[px[1]], freqs[py[1]], TimeDiff(px, py)), audio_id, times[px[2]]>>

\* for y, (yi, yj, _) in enumerate(peaks): if x != y: ...
RECURSIVE InnerLoop(_, _, _, _, _)
InnerLoop(out, peaks, x, y, audio_id) ==
  IF y > Len(peaks) THEN out
  ELSE InnerLoop(IF x # y /\ Paired(peaks[x], peaks[y])
                   THEN Append(out, HashRecord(peaks[x], peaks[y], audio_id))
                   ELSE out,
                 peaks, x, y + 1, audio_id)

\* for x, (xi, xj, _) in enumerate(peaks): ...
RECURSIVE OuterLoop(_, _, _, _)
OuterLoop(out, peaks, x, audio_id) ==
  IF x > Len(peaks) THEN out
  ELSE OuterLoop(InnerLoop(out, peaks, x, 1, audio_id), peaks, x + 1, audio_id)

GenerateFingerprints ==
  /\ ~generated.done
  /\ generated' = [done |-> TRUE, list |-> OuterLoop(<<>>, gen.peaks, 1, gen.audio_id)]
  /\ UNCHANGED <<gen, dbVars, hashVars, peakVars, srvVars, pipeVars>>

\* ------------------------------------------------------------ extract_peaks
\* A spectrogram is [r, c, cell]: spectrogram.shape is (r, c) and cell[<<k, l>>]
\* is spectrogram[k, l], for k in 0..r-1 and l in 0..c-1.  Amplitudes are
\* small integers, which floats hold exactly.
Rows == 0..2
Amplitudes == {-2, 1, 2}
Spectrograms ==
  UNION {[r : {r}, c : {c}, cell : [(0..(r - 1)) \X (0..(c - 1)) -> Amplitudes]] :
           r \in Rows, c \in 0..MaxCols}
\* The amplitudes of test_filter_constellation, as one row of five cells.
TestAmplitudes == <<1, 5, 10, 2, 8>>
TestSpectrogram ==
  [r |-> 1, c |-> 5, cell |-> [p \in {0} \X (0..4) |-> TestAmplitudes[p[2] + 1]]]
WindowSizes == {-1, 0, 1, 2}

\* A fraction is a float counted in units of 1/TimeScale, as the times are.
FloatOne == TimeScale
\* The float nearest to the decimal n/1000.
Thousandths(n) == FRound((2 * n * FloatOne + 1000) \div 2000)
Thresholds == {0, Thousandths(400), Thousandths(832), FloatOne}

\* n * x for an int n and a float x: the exact product, rounded.
FMul(n, x) == FRound(n * x)
\* int(x) of a float: truncation toward zero.
IntOfFloat(x) == IF x < 0 THEN -((-x) \div FloatOne) ELSE x \div FloatOne

Min(a, b) == IF a < b THEN a ELSE b

\* range(0, stop, step) as a list, for step # 0 and stop >= 0.
RangeSeq(stop, step) ==
  IF step > 0 THEN [n \in 1..((stop + step - 1) \div step) |-> (n - 1) * step]
  ELSE <<>>

\* for i in range(0, r, W): for j in range(0, c, W): the <<i, j>> in loop order.
TileOrigins(S, W) ==
  LET is == RangeSeq(S.r, W)
      js == RangeSeq(S.c, W)
  IN  [n \in 1..(Len(is) * Len(js)) |->
         <<is[1 + ((n - 1) \div Len(js))], js[1 + ((n - 1) % Len(js))]>>]

\* for k in range(i, min(i + W, r)): for l in range(j, min(j + W, c)):
\* the <<k, l>> in loop order.
TileCells(S, i, j, W) ==
  LET rows == Min(i + W, S.r) - i
      cols == Min(j + W, S.c) - j
  IN  [n \in 1..(rows * cols) |-> <<i + ((n - 1) \div cols), j + ((n - 1) % cols)>>]

\* if spectrogram[k, l] > max_ele: max_ele = ...; max_k, max_l = k, l
RECURSIVE ScanTile(_, _, _, _)
ScanTile(S, cells, n, best) ==
  IF n > Len(cells) THEN best
  ELSE ScanTile(S, cells, n + 1,
                IF S.cell[cells[n]] > best.max_ele
                  THEN [max_ele |-> S.cell[cells[n]], max_k |-> cells[n][1], max_l |-> cells[n][2]]
                  ELSE best)

\* max_ele = -1; max_k, max_l = -1, -1; then the scan of the tile.
TileMax(S, i, j, W) ==
  ScanTile(S, TileCells(S, i, j, W), 1, [max_ele |-> -1, max_k |-> -1, max_l |-> -1])

\* if max_k >= 0 and max_l >= 0: max_points.append([max_k, max_l, spectrogram[max_k, max_l]])
RECURSIVE CollectMaxPoints(_, _, _, _, _)
CollectMaxPoints(max_points, S, W, origins, n) ==
  IF n > Len(origins) THEN max_points
  ELSE LET best == TileMax(S, origins[n][1], origins[n][2], W)
       IN  CollectMaxPoints(
             IF best.max_k >= 0 /\ best.max_l >= 0
               THEN Append(max_points,
                           <<best.max_k, best.max_l, S.cell[<<best.max_k, best.max_l>>]>>)
               ELSE max_points,
             S, W, origins, n + 1)

\* sorted(max_points, key=lambda c: c[2]): stable, ascending; e goes after
\* the entries whose amplitude is not above its own.
InsertByAmplitude(sorted, e) ==
  LET n == Cardinality({i \in 1..Len(sorted) : sorted[i][3] <= e[3]})
  IN  SubSeq(sorted, 1, n) \o <<e>> \o SubSeq(sorted, n + 1, Len(sorted))

RECURSIVE SortedByAmplitude(_, _)
SortedByAmplitude(sorted, rest) ==
  IF rest = <<>> THEN sorted
  ELSE SortedByAmplitude(InsertByAmplitude(sorted, Head(rest)), Tail(rest))

\* filter_idx = int(len(sorted_points) * self.threshold)
FilterIdx(n, threshold) == IntOfFloat(FMul(n, threshold))

NotExtracted == [done |-> FALSE, raised |-> "", max_points |-> <<>>, list |-> <<>>]
Raised(e) == [done |-> TRUE, raised |-> e, max_points |-> <<>>, list |-> <<>>]

\* What extract_peaks does: range() raises ValueError for a step of zero;
\* otherwise the list sorted_points[filter_idx:] is returned.
ExtractPeaksOutcome(S, W, threshold) ==
  IF W = 0 THEN Raised("ValueError")
  ELSE LET max_points == CollectMaxPoints(<<>>, S, W, TileOrigins(S, W), 1)
           sorted_points == SortedByAmplitude(<<>>, max_points)
           filter_idx == FilterIdx(Len(sorted_points), threshold)
       IN  [done |-> TRUE, raised |-> "", max_points |-> max_points,
            list |-> SubSeq(sorted_points, filter_idx + 1, Len(sorted_points))]

\* extract_peaks(spectrogram)
ExtractPeaks ==
  /\ ~extracted.done
  /\ extracted' = ExtractPeaksOutcome(peak.spectrogram, peak.window_size, peak.threshold)
  /\ UNCHANGED <<peak, dbVars, hashVars, genVars, srvVars, pipeVars>>

\* -------------------------------------------------------- server: /predict
\* The server holds one FingerprintDatabase (`database`, server.py l.19):
\* the variables fingerprints and metadata, with the history `inserted`.
\* Each /predict request is a coroutine of the event loop; pc is the
\* statement it executes next, and a coroutine gives up the event loop only
\* where it awaits.
Requests == 1..MaxRequests
FileNames == {"a.wav", "b.wav"}
\* The query files: one sharing a digest with b.wav only, one without any
\* peak pair.
QueryFiles == {"like_b.wav", "silent.wav"}

\* The statements a suspended request resumes from: `await audio.read(...)`.
\* Mutant of AwaitPoints: the request also yields before each database step.
AwaitPointsEverywhere == {"read", "clear", "insert", "query"}
AwaitPoints == {"read"}

\* fingerprinter.process(str(ref_file), audio_id): the records of a
\* reference file; a file still being written cannot be loaded (None).
FileRecords(name, audio_id) ==
  IF name = "a.wav" THEN <<<<111, audio_id, 0>>>>
  ELSE <<<<111, audio_id, 0>>, <<222, audio_id, 3 * (TimeScale \div 2)>>>>
Process(name, audio_id) ==
  IF uploads[name] = "whole" THEN FileRecords(name, audio_id) ELSE <<>>

\* fingerprinter.process(str(dest), 999)
QueryHashes(name) ==
  IF name = "like_b.wav" THEN <<<<222, QueryId, 0>>>> ELSE <<>>

NoRequest ==
  [query |-> "", audio_id |-> 0, listing |-> <<>>, remaining |-> <<>>, processed |-> <<>>,
   own |-> <<>>, concurrent |-> {}, queried |-> FALSE, seen |-> [fingerprints |-> EmptyDict, metadata |-> EmptyDict,
                                              inserted |-> <<>>],
   outcome |-> "", response |-> <<>>]

\* The orders in which UPLOAD_DIR.iterdir() may list the files present.
Listings ==
  LET present == {name \in FileNames : uploads[name] # "absent"}
  IN  {l \in SeqsUpTo(present, Cardinality(present)) :
         Len(l) = Cardinality(present) /\ \A i, j \in 1..Len(l) : i # j => l[i] # l[j]}

\* The event loop after request rq moved to statement p: it is free again
\* if the request awaits there or has returned.
Yield(rq, p) == IF p \in AwaitPoints \cup {"done"} THEN 0 ELSE rq
\* The event loop runs rq next only if no other request is between awaits.
Scheduled(rq) == running \in {0, rq}

\* /upload (each file is uploaded once): dest.open("wb") creates the file ...
UploadOpen(name) ==
  /\ running = 0
  /\ uploads[name] = "absent"
  /\ uploads' = [uploads EXCEPT ![name] = "partial"]
  /\ UNCHANGED <<pc, running, requests, dbVars, hashVars, genVars, peakVars, pipeVars>>

\* ... and after the awaited chunks are written the file is whole.
UploadWrite(name) ==
  /\ running = 0
  /\ uploads[name] = "partial"
  /\ uploads' = [uploads EXCEPT ![name] = "whole"]
  /\ UNCHANGED <<pc, running, requests, dbVars, hashVars, genVars, peakVars, pipeVars>>

\* /predict arrives: the query file is opened and the first chunk awaited.
PredictStart(rq, query) ==
  /\ Scheduled(rq)
  /\ pc[rq] = "idle"
  /\ requests' = [requests EXCEPT ![rq].query = query]
  /\ pc' = [pc EXCEPT ![rq] = "read"]
  /\ running' = Yield(rq, "read")
  /\ UNCHANGED <<uploads, dbVars, hashVars, genVars, peakVars, pipeVars>>

\* chunk = await audio.read(...): the last chunk ends the loop; a file above
\* MAX_BYTES ends the request with HTTP 413.
PredictRead(rq, tooLarge) ==
  /\ Scheduled(rq)
  /\ pc[rq] = "read"
  /\ pc' = [pc EXCEPT ![rq] = IF tooLarge THEN "done" ELSE "clear"]
  /\ requests' = [requests EXCEPT ![rq].outcome = IF tooLarge THEN "413" ELSE ""]
  /\ running' = Yield(rq, IF tooLarge THEN "done" ELSE "clear")
  /\ UNCHANGED <<uploads, dbVars, hashVars, genVars, peakVars, pipeVars>>

\* Mutant of DatabaseCleared: clear() leaves the index as it is.
DatabaseKept == [fingerprints |-> fingerprints, metadata |-> metadata]
\* database.clear(): the two dicts after it.
DatabaseCleared == [fingerprints |-> EmptyDict, metadata |-> EmptyDict]

\* database.clear(); audio_id = 0; for ref_file in UPLOAD_DIR.iterdir():
PredictClear(rq) ==
  /\ Scheduled(rq)
  /\ pc[rq] = "clear"
  /\ fingerprints' = DatabaseCleared.fingerprints
  /\ metadata' = DatabaseCleared.metadata
  /\ inserted' = <<>>
  /\ cleared' = TRUE
  /\ call' = Idle("clear")
  /\ \E listing \in Listings :
       /\ requests' = [requests EXCEPT
                         ![rq].audio_id = 0, ![rq].listing = listing, ![rq].remaining = listing,
                         ![rq].concurrent = {other \in Requests \ {rq} : pc[other] \notin {"idle", "done"}}]
       /\ pc' = [pc EXCEPT ![rq] = IF listing = <<>> THEN "query" ELSE "insert"]
       /\ running' = Yield(rq, IF listing = <<>> THEN "query" ELSE "insert")
  /\ UNCHANGED <<uploads, matches, results, metaResult, hashVars, genVars, peakVars, pipeVars>>

\* audio_id += 1; hashes = fingerprinter.process(str(ref_file), audio_id);
\* if hashes: database.add_fingerprints(hashes, audio_id, metadata={"filename": ref_file.name})
PredictInsert(rq) ==
  /\ Scheduled(rq)
  /\ pc[rq] = "insert"
  /\ LET name == Head(requests[rq].remaining)
         audio_id == requests[rq].audio_id + 1
         hashes == Process(name, audio_id)
         next == IF Tail(requests[rq].remaining) = <<>> THEN "query" ELSE "insert"
     IN  /\ fingerprints' = AppendAll(fingerprints, hashes)
         /\ metadata' = IF hashes = <<>> THEN metadata ELSE StoreMetadata(metadata, audio_id, name)
         /\ inserted' = inserted \o hashes
         /\ cleared' = (cleared /\ hashes = <<>>)
         /\ call' = IF hashes = <<>> THEN call
                    ELSE [op |-> "add_fingerprints", query_hashes |-> <<>>, audio_id |-> audio_id]
         /\ requests' = [requests EXCEPT
                           ![rq].audio_id = audio_id,
                           ![rq].remaining = Tail(@),
                           ![rq].processed = Append(@, [name |-> name, audio_id |-> audio_id,
                                                        hashes |-> hashes]),
                           ![rq].own = @ \o hashes]
         /\ pc' = [pc EXCEPT ![rq] = next]
         /\ running' = Yield(rq, next)
  /\ UNCHANGED <<uploads, matches, results, metaResult, hashVars, genVars, peakVars, pipeVars>>

\* metadata = database.get_metadata(audio_id); "label": metadata.get("filename", ...)
\* if metadata else f"audio_{audio_id}"
Label(audio_id) ==
  IF audio_id \in DOMAIN metadata THEN metadata[audio_id] ELSE "audio_id"
Response(list) ==
  [i \in 1..Len(list) |-> [audio_id |-> list[i].id, label |-> Label(list[i].id)]]

\* query_hashes = fingerprinter.process(str(dest), 999); if not query_hashes:
\* return; results = database.query(query_hashes); if results is None:
\* return; the response; return.
PredictQuery(rq) ==
  /\ Scheduled(rq)
  /\ pc[rq] = "query"
  /\ LET query_hashes == QueryHashes(requests[rq].query)
         m == CollectMatches(<<>>, fingerprints, query_hashes)
     IN  IF query_hashes = <<>>
           THEN /\ requests' = [requests EXCEPT ![rq].outcome = "empty query"]
                /\ UNCHANGED <<matches, results, call, metaResult>>
           ELSE /\ matches' = m
                /\ results' = QueryResult(m)
                /\ call' = [op |-> "query", query_hashes |-> query_hashes, audio_id |-> 0]
                /\ metaResult' = NoMetadata
                /\ requests' = [requests EXCEPT
                     ![rq].queried = TRUE,
                     ![rq].seen = [fingerprints |-> fingerprints, metadata |-> metadata,
                                   inserted |-> inserted],
                     ![rq].outcome = IF QueryResult(m).isNone THEN "no match" ELSE "match",
                     ![rq].response = Response(QueryResult(m).list)]
  /\ pc' = [pc EXCEPT ![rq] = "done"]
  /\ running' = Yield(rq, "done")
  /\ UNCHANGED <<uploads, fingerprints, metadata, inserted, cleared, hashVars, genVars, peakVars, pipeVars>>

\* ------------------------------------------- fingerprint.py: predict, reset
\* The module state of fingerprint.py is the record `globals`: audio_id
\* (l.10), audio_db (l.13) and hash_fingerprints (l.14).
\* The files of AUDIO_DIR are the reference files of the server; the query
\* samples are a copy of a.wav and a file sharing no digest with them.
QuerySamples == {"a.wav", "c.wav"}
\* create_fingerprint(..., audio_id): the records of a file.
PipelineHashes(name, audio_id) ==
  IF name \in FileNames THEN FileRecords(name, audio_id) ELSE <<<<333, audio_id, 0>>>>

InitialGlobals == [audio_id |-> 0, audio_db |-> EmptyDict, hash_fingerprints |-> EmptyDict]

\* reset(): `auto_id = 0` binds a local name; audio_db and hash_fingerprints
\* are rebound to empty dicts.
Reset(g) == [g EXCEPT !.audio_db = EmptyDict, !.hash_fingerprints = EmptyDict]

\* processing_pipeline(path): audio_id += 1; audio_db[audio_id] = song_name
ProcessingPipeline(g, name) ==
  [g EXCEPT !.audio_id = @ + 1,
            !.audio_db = [k \in DOMAIN @ \cup {g.audio_id + 1} |->
                            IF k = g.audio_id + 1 THEN name ELSE @[k]]]

\* for filename in os.listdir(AUDIO_DIR): hashes = processing_pipeline(...);
\* save_to_db(hashes, hash_fingerprints)
RECURSIVE LoadReferences(_, _)
LoadReferences(g, files) ==
  IF files = <<>> THEN g
  ELSE LET g1 == ProcessingPipeline(g, Head(files))
           hashes == PipelineHashes(Head(files), g1.audio_id)
       IN  LoadReferences([g1 EXCEPT !.hash_fingerprints = AppendAll(@, hashes)], Tail(files))

\* evaluate(query_hashes, hash_fingerprints): None if nothing matches, else
\* the sources counted at the offset with the most votes.
Evaluate(query_hashes, hash_fingerprints) ==
  LET m == CollectMatches(<<>>, hash_fingerprints, query_hashes)
  IN  IF m = <<>> THEN None ELSE Some(CounterOf(<<>>, m[MaxKey(m)].cands))

\* for filename in os.listdir(QUERY_DIR): ...; if results is None: return;
\* ...; then reset(); return response.  `response` is unbound if QUERY_DIR
\* is empty.
RECURSIVE EvaluateQueries(_, _, _)
EvaluateQueries(g, samples, outcome) ==
  IF samples = <<>>
    THEN [globals |-> Reset(g), outcome |-> outcome]
    ELSE LET g1 == ProcessingPipeline(g, Head(samples))
             found == Evaluate(PipelineHashes(Head(samples), g1.audio_id), g1.hash_fingerprints)
         IN  IF found.isNone
               THEN [globals |-> g1, outcome |-> "no match"]
               ELSE EvaluateQueries(g1, Tail(samples), "matches")

NotPredicted ==
  [calls |-> 0, files |-> <<>>, samples |-> <<>>, before |-> InitialGlobals, outcome |-> ""]

\* predict()
Predict(files, samples) ==
  /\ predicted.calls < MaxPredicts
  /\ LET end == EvaluateQueries(LoadReferences(globals, files), samples, "UnboundLocalError")
     IN  /\ globals' = end.globals
         /\ predicted' = [calls |-> predicted.calls + 1, files |-> files, samples |-> samples,
                          before |-> globals, outcome |-> end.outcome]
  /\ UNCHANGED <<dbVars, hashVars, genVars, peakVars, srvVars>>

\* ------------------------------------------------------------ specification
DbInit ==
  /\ fingerprints = EmptyDict
  /\ metadata = EmptyDict
  /\ inserted = <<>>
  /\ cleared = FALSE
  /\ call = Idle("init")
  /\ matches = <<>>
  /\ results = None
  /\ metaResult = NoMetadata

HashIdle ==
  /\ fuzz = [f1_hz |-> 0, f2_hz |-> 0, dt_s |-> 0, eps |-> 0, delta |-> 0]
  /\ digests = [base |-> NotHashed, shifted |-> NotHashed]

GenIdle ==
  /\ gen = [peaks |-> <<>>, audio_id |-> 0]
  /\ generated = [done |-> FALSE, list |-> <<>>]

PeakIdle ==
  /\ peak = [spectrogram |-> [r |-> 0, c |-> 0, cell |-> <<>>], window_size |-> 1, threshold |-> 0]
  /\ extracted = NotExtracted

ServerIdle ==
  /\ uploads = [name \in FileNames |-> "absent"]
  /\ pc = [rq \in Requests |-> "idle"]
  /\ running = 0
  /\ requests = [rq \in Requests |-> NoRequest]

PipelineIdle ==
  /\ globals = InitialGlobals
  /\ predicted = NotPredicted

Init == DbInit /\ HashIdle /\ GenIdle /\ PeakIdle /\ ServerIdle /\ PipelineIdle

Next ==
  \/ \E recs \in SeqsUpTo(RunRecords, MaxHashes), audio_id \in SourceIds,
        m \in {NoMetadata, SomeMetadata} :
       AddFingerprints(recs, audio_id, m)
  \/ \E query_hashes \in SeqsUpTo(QueryRecords, MaxLookups) : Query(query_hashes)
  \/ Clear
  \/ \E audio_id \in SourceIds : GetMetadata(audio_id)

Spec == Init /\ [][Next]_vars

\* One query applied to an index built by add_fingerprints from any record
\* list: query is a function of the index and of its argument.
InitQuery ==
  /\ inserted \in SeqsUpTo(DbRecords, MaxIndex)
  /\ fingerprints = AppendAll(EmptyDict, inserted)
  /\ metadata = EmptyDict
  /\ cleared = FALSE
  /\ call = Idle("init")
  /\ matches = <<>>
  /\ results = None
  /\ metaResult = NoMetadata
  /\ HashIdle /\ GenIdle /\ PeakIdle /\ ServerIdle /\ PipelineIdle

NextQuery ==
  \E query_hashes \in SeqsUpTo(QueryRecords, MaxQuery) :
    call.op = "init" /\ Query(query_hashes)

SpecQuery == InitQuery /\ [][NextQuery]_vars

\* _make_fuzzy_hash applied to arguments and to the shifted arguments.
\* Frequencies in Hz; times are the floats nearest to a number of
\* milliseconds; the shifts are within half a bucket width (10 Hz, 0.01 s).
Millis(ms) == FRound((ms * TimeScale) \div 1000)
Frequencies == {0, 10, 19, 20, 30, 39, 45, 480, 20480}
SecondFrequencies == {15, 30, 40, 59}
TimeDiffs == {Millis(ms) : ms \in {0, 10, 20, 30, 181, 1010}}
FrequencyShifts == {-10, -1, 0, 1, 10}
TimeShifts == {-Millis(10), -Millis(1), 0, Millis(1), Millis(10)}

InitHash ==
  /\ fuzz \in [f1_hz : Frequencies, f2_hz : SecondFrequencies, dt_s : TimeDiffs,
               eps : FrequencyShifts, delta : TimeShifts]
  /\ fuzz.f1_hz + fuzz.eps >= 0
  /\ fuzz.dt_s + fuzz.delta >= 0
  /\ digests = [base |-> NotHashed, shifted |-> NotHashed]
  /\ DbInit /\ GenIdle /\ PeakIdle /\ ServerIdle /\ PipelineIdle

NextHash == HashArguments \/ HashShiftedArguments

SpecHash == InitHash /\ [][NextHash]_vars

\* generate_fingerprints applied to any list of peaks.
InitGen ==
  /\ gen \in [peaks : SeqsUpTo(Peaks, MaxPeaks), audio_id : SourceIds]
  /\ generated = [done |-> FALSE, list |-> <<>>]
  /\ DbInit /\ HashIdle /\ PeakIdle /\ ServerIdle /\ PipelineIdle

NextGen == GenerateFingerprints

SpecGen == InitGen /\ [][NextGen]_vars

\* extract_peaks applied to any spectrogram, for any window_size and threshold.
InitPeaks ==
  /\ peak \in [spectrogram : Spectrograms \cup {TestSpectrogram},
                window_size : WindowSizes, threshold : Thresholds]
  /\ extracted = NotExtracted
  /\ DbInit /\ HashIdle /\ GenIdle /\ ServerIdle /\ PipelineIdle

NextPeaks == ExtractPeaks

SpecPeaks == InitPeaks /\ [][NextPeaks]_vars

\* The server: uploads and /predict requests on the event loop.
InitServer == Init

NextServer ==
  \/ \E name \in FileNames : UploadOpen(name)
  \/ \E name \in FileNames : UploadWrite(name)
  \/ \E rq \in Requests, query \in QueryFiles : PredictStart(rq, query)
  \/ \E rq \in Requests, tooLarge \in BOOLEAN : PredictRead(rq, tooLarge)
  \/ \E rq \in Requests : PredictClear(rq)
  \/ \E rq \in Requests : PredictInsert(rq)
  \/ \E rq \in Requests : PredictQuery(rq)

SpecServer == InitServer /\ [][NextServer]_vars

\* The module-level pipeline: predict() called again and again.
InitPipeline == Init

NextPipeline ==
  \E files \in SeqsUpTo(FileNames, MaxFiles), samples \in SeqsUpTo(QuerySamples, MaxFiles) :
    Predict(files, samples)

SpecPipeline == InitPipeline /\ [][NextPipeline]_vars

\* ===================================================================== claims
\* The votes of the last query, named by position: <<i, j>> is the j-th
\* posting of the digest of the i-th query record.
VotePositions ==
  {p \in (1..Len(call.query_hashes)) \X (1..Len(inserted)) :
     /\ call.query_hashes[p[1]][1] \in DOMAIN fingerprints
     /\ p[2] <= Len(fingerprints[call.query_hashes[p[1]][1]])}

PostingAt(p) == fingerprints[call.query_hashes[p[1]][1]][p[2]]
VoteSource(p) == PostingAt(p)[1]
\* The exact difference db_anchor_time - query_anchor_time of a vote.
VoteDifference(p) == PostingAt(p)[2] - call.query_hashes[p[1]][3]
VoteOffset(p) == Offset(PostingAt(p)[2], call.query_hashes[p[1]][3])

\* Vote p is cast before vote q: query records in order, postings in order.
CastBefore(p, q) == p[1] < q[1] \/ (p[1] = q[1] /\ p[2] < q[2])

VotesAt(offset) == {p \in VotePositions : VoteOffset(p) = offset}
VotedOffsets == {VoteOffset(p) : p \in VotePositions}

\* The first vote cast among the votes in bucket.
FirstVote(bucket) ==
  CHOOSE p \in bucket : \A q \in bucket : q = p \/ CastBefore(p, q)

\* The votes cast for the offset with the most votes, and among several
\* such offsets for the one voted for first.
FirstLongestBucket ==
  LET votes == VotePositions
      offsetOf == [p \in votes |-> VoteOffset(p)]
      offsets == {offsetOf[p] : p \in votes}
      bucket == [o \in offsets |-> {p \in votes : offsetOf[p] = o}]
      size == [o \in offsets |-> Cardinality(bucket[o])]
      first == [o \in offsets |-> FirstVote(bucket[o])]
      winner == CHOOSE o \in offsets :
                  \A o2 \in offsets :
                    \/ o2 = o
                    \/ size[o2] < size[o]
                    \/ size[o2] = size[o] /\ CastBefore(first[o], first[o2])
  IN  bucket[winner]

Queried == call.op = "query"

Range(seq) == {seq[i] : i \in 1..Len(seq)}
Occurrences(seq, x) == Cardinality({i \in 1..Len(seq) : seq[i] = x})
FirstIndex(seq, x) == CHOOSE i \in 1..Len(seq) : seq[i] = x /\ \A j \in 1..(i - 1) : seq[j] # x

\* The candidate list query scores: the one max() selects.
WinningCands == matches[MaxKey(matches)].cands

\* C1: when at least one posting is found, query scores the offset bucket
\* with the longest candidate list, and among several longest buckets the
\* one first created while iterating the query records in order and, within
\* a record, its postings in insertion order.
C1_ScoresFirstLongestOffset ==
  (Queried /\ VotePositions # {}) =>
    LET scored == FirstLongestBucket IN
    /\ ~results.isNone
    /\ {e.id : e \in Range(results.list)} = {VoteSource(p) : p \in scored}
    /\ \A e \in Range(results.list) :
         /\ e.den = Cardinality(scored)
         /\ e.num = Cardinality({p \in scored : VoteSource(p) = e.id})

\* C1 witness: two offsets tie for the most votes, with different sources.
C1_Witness ==
  /\ Queried
  /\ \E o1, o2 \in VotedOffsets :
       /\ o1 # o2
       /\ Cardinality(VotesAt(o1)) = Cardinality(VotesAt(o2))
       /\ \A o \in VotedOffsets : Cardinality(VotesAt(o)) <= Cardinality(VotesAt(o1))
       /\ {VoteSource(p) : p \in VotesAt(o1)} # {VoteSource(p) : p \in VotesAt(o2)}

\* C2: a returned list has exactly one entry per source voted for at the
\* winning offset and no other; each confidence is the source's votes over
\* all votes at that offset, so it lies in (0, 1] and the confidences sum to
\* 1; a single source at the winning offset gives [(source, 1.0)].
C2_ConfidenceIsVoteShare ==
  (Queried /\ ~results.isNone) =>
    LET l == results.list IN
    /\ \A i, j \in 1..Len(l) : l[i].id = l[j].id => i = j
    /\ {l[i].id : i \in 1..Len(l)} = Range(WinningCands)
    /\ \A i \in 1..Len(l) :
         /\ l[i].num = Occurrences(WinningCands, l[i].id)
         /\ l[i].den = Len(WinningCands)
         /\ 0 < l[i].num /\ l[i].num <= l[i].den
    /\ Sum([i \in 1..Len(l) |-> l[i].num]) = Len(WinningCands)
    /\ (Cardinality(Range(WinningCands)) = 1 =>
          l = <<[id |-> WinningCands[1], num |-> Len(WinningCands), den |-> Len(WinningCands)]>>)

\* C2 witness: two sources share the winning offset with different shares.
C2_Witness ==
  /\ Queried /\ ~results.isNone
  /\ Len(results.list) = 2
  /\ results.list[1].num # results.list[2].num

\* Some digest of the last query has a posting in the index.
SomePostingFound ==
  \E i \in 1..Len(call.query_hashes) :
    /\ call.query_hashes[i][1] \in DOMAIN fingerprints
    /\ fingerprints[call.query_hashes[i][1]] # <<>>

\* C3: query returns None if and only if no digest of the query records has a
\* posting in the index (an empty query and an empty index included); it
\* returns no empty list then, and never None when a posting is found.
C3_NoneIffNoPosting ==
  Queried =>
    /\ results.isNone <=> ~SomePostingFound
    /\ ~results.isNone => results.list # <<>>

\* C3 witness: a non-empty query on a non-empty index finds no posting.
C3_Witness ==
  /\ Queried /\ results.isNone
  /\ call.query_hashes # <<>>
  /\ fingerprints # EmptyDict

\* C4 as claimed: the list is sorted by confidence descending, entries of
\* equal confidence in ascending source_id order.
C4_TiesByAscendingSourceId ==
  (Queried /\ ~results.isNone) =>
    \A i, j \in 1..Len(results.list) :
      i < j =>
        \/ Higher(results.list[i], results.list[j])
        \/ /\ results.list[i].num * results.list[j].den = results.list[j].num * results.list[i].den
           /\ results.list[i].id < results.list[j].id

\* C4 amended: the list is sorted by confidence descending, and entries of
\* equal confidence appear in the order in which their sources were first
\* voted for at the winning offset.
C4_TiesByFirstVote ==
  (Queried /\ ~results.isNone) =>
    \A i, j \in 1..Len(results.list) :
      i < j =>
        \/ Higher(results.list[i], results.list[j])
        \/ /\ results.list[i].num * results.list[j].den = results.list[j].num * results.list[i].den
           /\ FirstIndex(WinningCands, results.list[i].id)
                < FirstIndex(WinningCands, results.list[j].id)

\* C4 witness: two sources tie and the higher source_id was voted for first.
C4_Witness ==
  /\ Queried /\ ~results.isNone
  /\ Len(results.list) = 2
  /\ results.list[1].num = results.list[2].num
  /\ results.list[1].id > results.list[2].id

\* The whole seconds of an exact difference x, rounded toward negative
\* infinity and toward zero.
Floor(x) == CHOOSE n \in -3..3 : n * TimeScale <= x /\ x < (n + 1) * TimeScale
Truncate(x) == IF x < 0 THEN -Floor(-x) ELSE Floor(x)

\* The buckets of `matches` hold the votes that bucketOf sends to them.
BucketsAre(bucketOf(_)) ==
  /\ {matches[i].offset : i \in 1..Len(matches)}
       = {bucketOf(VoteDifference(p)) : p \in VotePositions}
  /\ \A i \in 1..Len(matches) :
       Len(matches[i].cands)
         = Cardinality({p \in VotePositions : bucketOf(VoteDifference(p)) = matches[i].offset})

\* C5 as claimed: every matching (posting, query record) pair votes in the
\* bucket floor(db_anchor_time - query_anchor_time), also for a negative
\* difference that is no whole number (-0.5 votes in bucket -1).
C5_OffsetIsFloor == Queried => BucketsAre(Floor)

\* C5 amended: every matching pair votes in the bucket of the difference
\* truncated toward zero (-0.5 votes in bucket 0, together with 0.5).
C5_OffsetIsTruncation == Queried => BucketsAre(Truncate)

\* C5 witness: a matching pair with a negative difference of half a second.
C5_Witness ==
  /\ Queried
  /\ \E p \in VotePositions : VoteDifference(p) < 0 /\ VoteDifference(p) % TimeScale # 0

\* The postings of the records of digest d among recs, in order.
PostingsOf(recs, d) ==
  LET of == SelectSeq(recs, LAMBDA r : r[1] = d)
  IN  [i \in 1..Len(of) |-> <<of[i][2], of[i][3]>>]

\* C6: after any sequence of add_fingerprints calls with no clear between,
\* the posting list of every digest is the sequence of (source_id,
\* anchor_time) of all inserted records with that digest, in insertion
\* order and with duplicates kept; the source_id is the record's, not the
\* audio_id argument.
C6_PostingsAccumulate ==
  /\ DOMAIN fingerprints = {inserted[i][1] : i \in 1..Len(inserted)}
  /\ \A d \in DOMAIN fingerprints : fingerprints[d] = PostingsOf(inserted, d)

\* C6 witness: the same record was inserted twice, under an audio_id
\* argument that is not the record's source_id.
C6_Witness ==
  /\ call.op = "add_fingerprints"
  /\ Len(inserted) = 2 /\ inserted[1] = inserted[2]
  /\ inserted[1][2] # call.audio_id

\* C7: after clear() the index holds no posting and no metadata, and until
\* the next add_fingerprints every query and every get_metadata returns None.
C7_ClearedStaysEmpty ==
  cleared =>
    /\ fingerprints = EmptyDict
    /\ metadata = EmptyDict
    /\ (Queried => results.isNone)
    /\ (call.op = "get_metadata" => metaResult = NoMetadata)

\* C7 witness: a non-empty query made after a clear.
C7_Witness ==
  /\ cleared /\ Queried
  /\ call.query_hashes # <<>>

\* The ordered pairs of distinct positions of peaks whose time difference
\* time(y) - time(x) is positive and at most the window.
PairsInWindow(peaks) ==
  {p \in (1..Len(peaks)) \X (1..Len(peaks)) :
     /\ p[1] # p[2]
     /\ 0 < times[peaks[p[2]][2]] - times[peaks[p[1]][2]]
     /\ times[peaks[p[2]][2]] - times[peaks[p[1]][2]] <= time_window}

\* The place of pair p among pairs, taken by x and then by y.
PairRank(pairs, p) == 1 + Cardinality({q \in pairs : CastBefore(q, p)})

\* C8: generate_fingerprints emits exactly one record for each ordered pair
\* (x, y) of distinct list positions with 0 < time(y) - time(x) <=
\* time_window and none for any other pair; the record of a pair has
\* anchor_time = time(x) and source_id = the audio_id argument.
C8_OneRecordPerPairInWindow ==
  generated.done =>
    LET pairs == PairsInWindow(gen.peaks) IN
    /\ Len(generated.list) = Cardinality(pairs)
    /\ \A p \in pairs :
         LET rec == generated.list[PairRank(pairs, p)] IN
         /\ rec[2] = gen.audio_id
         /\ rec[3] = times[gen.peaks[p[1]][2]]

\* C8 witness: records were emitted for a list that also holds a pair further
\* apart than the window and a pair exactly the window apart.
C8_Witness ==
  /\ generated.done
  /\ generated.list # <<>>
  /\ \E x, y \in 1..Len(gen.peaks) :
       times[gen.peaks[y][2]] - times[gen.peaks[x][2]] > time_window
  /\ \E x, y \in 1..Len(gen.peaks) :
       times[gen.peaks[y][2]] - times[gen.peaks[x][2]] = time_window

BothHashed == digests.base.done /\ digests.shifted.done

FloorBucket(value, width) == value \div width

\* The shifts leave each of the three values in its bucket.
ShiftKeepsBuckets ==
  /\ FloorBucket(FAdd(fuzz.f1_hz, fuzz.eps), FUZ_F_HZ) = FloorBucket(fuzz.f1_hz, FUZ_F_HZ)
  /\ FloorBucket(FAdd(fuzz.f2_hz, fuzz.eps), FUZ_F_HZ) = FloorBucket(fuzz.f2_hz, FUZ_F_HZ)
  /\ FloorBucket(FAdd(fuzz.dt_s, fuzz.delta), FUZ_DT_S) = FloorBucket(fuzz.dt_s, FUZ_DT_S)

C10_DigestPacksFloorBuckets ==
  digests.base.done =>
    digests.base.digest
      = FloorBucket(fuzz.dt_s, FUZ_DT_S) * 10^6
          + FloorBucket(fuzz.f2_hz, FUZ_F_HZ) * 10^3
          + FloorBucket(fuzz.f1_hz, FUZ_F_HZ)

\* --------------------------------------------------------------- C11 .. C13
Returned == extracted.done /\ extracted.raised = ""
NonEmptyInput == peak.spectrogram.r > 0 /\ peak.spectrogram.c > 0
Ceil(a, b) == (a + b - 1) \div b
TileRows == Ceil(peak.spectrogram.r, peak.window_size)
TileCols == Ceil(peak.spectrogram.c, peak.window_size)

\* The cells of the n-th tile (tiles counted row by row from 1), clipped at
\* the edges of the spectrogram.
CellsOfTile(n) ==
  LET i == ((n - 1) \div TileCols) * peak.window_size
      j == ((n - 1) % TileCols) * peak.window_size
  IN  {p \in DOMAIN peak.spectrogram.cell :
         /\ i <= p[1] /\ p[1] < i + peak.window_size
         /\ j <= p[2] /\ p[2] < j + peak.window_size}

RowMajorBefore(p, q) == p[1] < q[1] \/ (p[1] = q[1] /\ p[2] < q[2])

\* p is the cell of maximum amplitude of a tile, the first one in row-major
\* order among equal maxima.
FirstMaximum(p, cells) ==
  /\ p \in cells
  /\ \A q \in cells :
       /\ peak.spectrogram.cell[q] <= peak.spectrogram.cell[p]
       /\ peak.spectrogram.cell[q] = peak.spectrogram.cell[p] /\ q # p => RowMajorBefore(p, q)

\* C11 as claimed: for a non-empty spectrogram and window_size > 0,
\* extract_peaks collects one candidate per tile, ceil(r/W) * ceil(c/W) in
\* all, the n-th being the first maximum of the n-th tile, and it skips no
\* tile whatever the amplitudes are.
C11_OneCandidatePerTile ==
  (Returned /\ NonEmptyInput /\ peak.window_size > 0) =>
    /\ Len(extracted.max_points) = TileRows * TileCols
    /\ \A n \in 1..Len(extracted.max_points) :
         /\ FirstMaximum(<<extracted.max_points[n][1], extracted.max_points[n][2]>>, CellsOfTile(n))
         /\ extracted.max_points[n][3]
              = peak.spectrogram.cell[<<extracted.max_points[n][1], extracted.max_points[n][2]>>]

\* The position in max_points of a candidate (candidates are distinct cells).
Collected(e) == CHOOSE n \in 1..Len(extracted.max_points) : extracted.max_points[n] = e
Discarded == Range(extracted.max_points) \ Range(extracted.list)
AmplitudesOf(list) == [n \in 1..Len(list) |-> list[n][3]]

\* C12 as claimed: of N candidates, extract_peaks returns N - floor(N * theta)
\* in ascending order of amplitude, none of them below a discarded one; of
\* equal amplitudes the ones collected earlier are discarded; and the
\* amplitudes 1, 2, 8, 5, 10 with theta = 0.4 leave 5, 8, 10.
C12_KeepsAllButFloorShare ==
  Returned =>
    /\ Len(extracted.list)
         = Len(extracted.max_points) - ((Len(extracted.max_points) * peak.threshold) \div FloatOne)
    /\ Range(extracted.list) \subseteq Range(extracted.max_points)
    /\ \A m, n \in 1..Len(extracted.list) : m < n => extracted.list[m][3] <= extracted.list[n][3]
    /\ \A kept \in Range(extracted.list), dropped \in Discarded :
         /\ kept[3] >= dropped[3]
         /\ kept[3] = dropped[3] => Collected(dropped) < Collected(kept)
    /\ (/\ peak.spectrogram = TestSpectrogram
        /\ peak.window_size = 1
        /\ peak.threshold = Thousandths(400)) => AmplitudesOf(extracted.list) = <<5, 8, 10>>

\* C13 as claimed: extract_peaks rejects an empty spectrogram and a
\* window_size <= 0 with an error instead of returning a list of peaks.
C13_InvalidInputRejected ==
  (extracted.done /\ (~NonEmptyInput \/ peak.window_size <= 0)) => extracted.raised # ""

\* ---------------------------------------------------------------------- C14
\* C14 as claimed: the packing never collides silently.  _make_fuzzy_hash
\* returns a digest for every input (it rejects none), so any other input
\* whose buckets <<time, freq2, freq1>> differ from those of the hashed
\* arguments must get another digest, frequencies of 20000 Hz and more
\* included.
C14_DistinctBucketsDistinctDigests ==
  digests.base.done =>
    \A f1 \in Frequencies, f2 \in SecondFrequencies, dt \in TimeDiffs :
      BucketsOf(f1, f2, dt) # BucketsOf(fuzz.f1_hz, fuzz.f2_hz, fuzz.dt_s)
        => MakeFuzzyHash(f1, f2, dt) # digests.base.digest

\* --------------------------------------------------------------- C15, C16
\* The requests that are between their database.clear() and their return.
Rebuilding == {rq \in Requests : pc[rq] \in {"insert", "query"}}

\* C15: the clear / insert / query steps of a /predict request are never
\* interleaved with those of another request: at most one request is
\* between its clear and its return, and what each database.query found
\* inserted since the last clear is exactly what its own request inserted,
\* for every file of its listing.
C15_RebuildAndQueryNotInterleaved ==
  /\ Cardinality(Rebuilding) <= 1
  /\ \A rq \in Requests :
       requests[rq].queried =>
         /\ requests[rq].seen.inserted = requests[rq].own
         /\ requests[rq].seen.fingerprints = AppendAll(EmptyDict, requests[rq].own)
         /\ Len(requests[rq].processed) = Len(requests[rq].listing)

\* C15 witness: a request rebuilt a non-empty index and queried it while
\* another request was suspended in its upload loop, and that one rebuilt
\* and queried in its turn.
C15_Witness ==
  \E rq \in Requests :
    /\ requests[rq].queried /\ requests[rq].own # <<>>
    /\ requests[rq].concurrent # {}
    /\ \A other \in requests[rq].concurrent :
         requests[other].queried /\ requests[other].own # <<>>

\* The records of the reference files a request processed, file after file.
RECURSIVE ProcessedRecords(_)
ProcessedRecords(processed) ==
  IF processed = <<>> THEN <<>>
  ELSE Head(processed).hashes \o ProcessedRecords(Tail(processed))

\* C16: at each database.query the index holds the records of each
\* reference file processed in that request once and nothing else, no
\* posting twice, and the metadata of each file is stored under the
\* audio_id that tags its postings.
C16_IndexHoldsEachFileOnce ==
  \A rq \in Requests :
    requests[rq].queried =>
      LET recs == ProcessedRecords(requests[rq].processed)
          seen == requests[rq].seen
          indexed == {i \in 1..Len(requests[rq].processed) :
                        requests[rq].processed[i].hashes # <<>>}
      IN  /\ DOMAIN seen.fingerprints = {recs[i][1] : i \in 1..Len(recs)}
          /\ \A d \in DOMAIN seen.fingerprints :
               /\ seen.fingerprints[d] = PostingsOf(recs, d)
               /\ \A i, j \in 1..Len(seen.fingerprints[d]) :
                    i # j => seen.fingerprints[d][i] # seen.fingerprints[d][j]
               /\ \A i \in 1..Len(seen.fingerprints[d]) :
                    seen.fingerprints[d][i][1] \in DOMAIN seen.metadata
          /\ DOMAIN seen.metadata = {requests[rq].processed[i].audio_id : i \in indexed}
          /\ \A i \in indexed :
               /\ seen.metadata[requests[rq].processed[i].audio_id] = requests[rq].processed[i].name
               /\ requests[rq].processed[i].hashes
                    = FileRecords(requests[rq].processed[i].name, requests[rq].processed[i].audio_id)

\* C16 witness: two requests queried a rebuilt, non-empty index, one ending
\* with a match and one without, the later one over the index the earlier
\* one had left.
C16_Witness ==
  \E rq, other \in Requests :
    /\ requests[rq].queried /\ requests[rq].outcome = "match"
    /\ requests[other].queried /\ requests[other].outcome = "no match"
    /\ requests[rq].own # <<>> /\ requests[other].own # <<>>
    /\ Len(requests[rq].seen.fingerprints[111]) = 2

\* ---------------------------------------------------------------------- C17
\* C17 as claimed: every return of predict(), with matches or with no
\* match, leaves the module state as it was initially (audio_id 0, audio_db
\* and hash_fingerprints empty), so that every predict() call starts from
\* that state, assigns its ids from 1 and finds no posting of an earlier
\* call.
C17_PredictRestoresModuleState ==
  /\ predicted.outcome \in {"matches", "no match"} => globals = InitialGlobals
  /\ predicted.calls > 0 => predicted.before = InitialGlobals

====
